---- MODULE Spec2Model ----
(***************************************************************************)
(* Model of the player resale value estimator (src/player_value_app.py):   *)
(* the PlayerValueEstimator class and get_recommendation.                  *)
(*                                                                         *)
(* Numbers.  The program computes in binary floating point.  The model     *)
(* computes the same expressions exactly: every constant of the program    *)
(* is a finite decimal, so products, sums and differences are finite       *)
(* decimals, held as a sign, a little-endian sequence of decimal digits    *)
(* and a count of decimal places (the digits are unbounded, so no value    *)
(* is cut to a machine width).  The growth rates of the momentum model     *)
(* are quotients and are held as reduced fractions of integers.            *)
(***************************************************************************)
EXTENDS Integers, Sequences, FiniteSets, TLC

(***************************************************************************)
(* Unbounded naturals: little-endian digit sequences, <<>> is zero, no     *)
(* most-significant zero digit.                                            *)
(***************************************************************************)
RECURSIVE StripHigh(_)
StripHigh(a) ==
    IF a = <<>> THEN <<>>
    ELSE IF a[Len(a)] = 0 THEN StripHigh(SubSeq(a, 1, Len(a) - 1))
    ELSE a

RECURSIVE StripLow(_, _)
\* Drops low-order zero digits while decimal places remain: <<digits, places>>.
StripLow(a, e) ==
    IF a = <<>> THEN <<a, 0>>
    ELSE IF e > 0 /\ a[1] = 0 THEN StripLow(Tail(a), e - 1)
    ELSE <<a, e>>

RECURSIVE NatOfInt(_)
NatOfInt(n) == IF n = 0 THEN <<>> ELSE <<n % 10>> \o NatOfInt(n \div 10)

RECURSIVE NatAddC(_, _, _)
NatAddC(a, b, c) ==
    IF a = <<>> /\ b = <<>> THEN (IF c = 0 THEN <<>> ELSE <<c>>)
    ELSE LET x == (IF a = <<>> THEN 0 ELSE a[1])
                  + (IF b = <<>> THEN 0 ELSE b[1]) + c
         IN  <<x % 10>> \o NatAddC(IF a = <<>> THEN <<>> ELSE Tail(a),
                                   IF b = <<>> THEN <<>> ELSE Tail(b),
                                   x \div 10)

NatAdd(a, b) == NatAddC(a, b, 0)

RECURSIVE NatSubB(_, _, _)
\* a - b - borrow, for a >= b + borrow; high zeros are stripped by NatSub.
NatSubB(a, b, c) ==
    IF a = <<>> THEN <<>>
    ELSE LET x == a[1] - (IF b = <<>> THEN 0 ELSE b[1]) - c
         IN  <<IF x < 0 THEN x + 10 ELSE x>>
             \o NatSubB(Tail(a), IF b = <<>> THEN <<>> ELSE Tail(b),
                        IF x < 0 THEN 1 ELSE 0)

NatSub(a, b) == StripHigh(NatSubB(a, b, 0))

RECURSIVE NatMulDigit(_, _, _)
NatMulDigit(a, k, c) ==
    IF a = <<>> THEN (IF c = 0 THEN <<>> ELSE NatOfInt(c))
    ELSE LET x == a[1] * k + c
         IN  <<x % 10>> \o NatMulDigit(Tail(a), k, x \div 10)

RECURSIVE NatMul(_, _)
NatMul(a, b) ==
    IF a = <<>> \/ b = <<>> THEN <<>>
    ELSE LET rest == NatMul(a, Tail(b))
         IN  NatAdd(IF b[1] = 0 THEN <<>> ELSE NatMulDigit(a, b[1], 0),
                    IF rest = <<>> THEN <<>> ELSE <<0>> \o rest)

RECURSIVE NatCmpFrom(_, _, _)
NatCmpFrom(a, b, i) ==
    IF i = 0 THEN 0
    ELSE IF a[i] < b[i] THEN -1
    ELSE IF a[i] > b[i] THEN 1
    ELSE NatCmpFrom(a, b, i - 1)

\* -1, 0, 1 as a < b, a = b, a > b.
NatCmp(a, b) ==
    IF Len(a) < Len(b) THEN -1
    ELSE IF Len(a) > Len(b) THEN 1
    ELSE NatCmpFrom(a, b, Len(a))

RECURSIVE Zeros(_)
Zeros(n) == IF n = 0 THEN <<>> ELSE <<0>> \o Zeros(n - 1)

\* a * 10^n
NatShift(a, n) == IF a = <<>> THEN <<>> ELSE Zeros(n) \o a

(***************************************************************************)
(* Exact decimals: [neg, dig, exp] is (-1)^neg * dig / 10^exp, in          *)
(* canonical form (no spare zero digit at either end, zero is unsigned),   *)
(* so equal numbers are equal values.                                      *)
(***************************************************************************)
DNorm(neg, dig, exp) ==
    LET hs == StripHigh(dig)
        lo == StripLow(hs, exp)
    IN  IF hs = <<>> THEN [neg |-> FALSE, dig |-> <<>>, exp |-> 0]
        ELSE [neg |-> neg, dig |-> lo[1], exp |-> lo[2]]

\* The decimal mant / 10^places, mant an integer: DLit(115, 2) is 1.15.
DLit(mant, places) ==
    DNorm(mant < 0, NatOfInt(IF mant < 0 THEN -mant ELSE mant), places)

DInt(n) == DLit(n, 0)

DZero == DInt(0)

DOne == DInt(1)

DNeg(x) == IF x.dig = <<>> THEN x ELSE [x EXCEPT !.neg = ~x.neg]

\* The recursion of NatMul runs over its second argument: the shorter one.
DMul(x, y) ==
    DNorm(x.neg # y.neg,
          IF Len(x.dig) >= Len(y.dig) THEN NatMul(x.dig, y.dig)
          ELSE NatMul(y.dig, x.dig),
          x.exp + y.exp)

DAdd(x, y) ==
    LET e == IF x.exp > y.exp THEN x.exp ELSE y.exp
        a == NatShift(x.dig, e - x.exp)
        b == NatShift(y.dig, e - y.exp)
        c == NatCmp(a, b)
    IN  IF x.neg = y.neg THEN DNorm(x.neg, NatAdd(a, b), e)
        ELSE IF c = 0 THEN DZero
        ELSE IF c > 0 THEN DNorm(x.neg, NatSub(a, b), e)
        ELSE DNorm(y.neg, NatSub(b, a), e)

DSub(x, y) == DAdd(x, DNeg(y))

\* -1, 0, 1 as x < y, x = y, x > y.
DCmp(x, y) ==
    LET e == IF x.exp > y.exp THEN x.exp ELSE y.exp
        c == NatCmp(NatShift(x.dig, e - x.exp), NatShift(y.dig, e - y.exp))
    IN  IF x.neg /\ ~y.neg THEN -1
        ELSE IF ~x.neg /\ y.neg THEN 1
        ELSE IF x.neg THEN -c
        ELSE c

DLt(x, y) == DCmp(x, y) < 0

DLe(x, y) == DCmp(x, y) <= 0

DGt(x, y) == DCmp(x, y) > 0

DGe(x, y) == DCmp(x, y) >= 0

RECURSIVE DPow(_, _)
\* x ** n for an integer n >= 0 (x ** 0 is 1.0, as in Python).
DPow(x, n) == IF n = 0 THEN DOne ELSE DMul(DPow(x, n - 1), x)

(***************************************************************************)
(* Exact fractions of integers, <<numerator, denominator>> in lowest terms *)
(* with a positive denominator: the growth rates of the momentum model.    *)
(***************************************************************************)
Abs(n) == IF n < 0 THEN -n ELSE n

RECURSIVE GCD(_, _)
GCD(a, b) == IF b = 0 THEN a ELSE GCD(b, a % b)

Frac(n, d) ==
    LET g == GCD(Abs(n), Abs(d))
        s == IF d < 0 THEN -1 ELSE 1
    IN  <<(s * n) \div g, (s * d) \div g>>

FAdd(x, y) == Frac(x[1] * y[2] + y[1] * x[2], x[2] * y[2])

FMul(x, y) == Frac(x[1] * y[1], x[2] * y[2])

FGt(x, y) == x[1] * y[2] > y[1] * x[2]

FGe(x, y) == x[1] * y[2] >= y[1] * x[2]

RECURSIVE FSum(_)
FSum(rates) == IF rates = <<>> THEN <<0, 1>> ELSE FAdd(rates[1], FSum(Tail(rates)))

(***************************************************************************)
(* Values of the fields of a player record.  A cell of the record holds a  *)
(* number or something that is not one: NaN (a missing value of a          *)
(* history), a text that is no numeral, or None.                           *)
(***************************************************************************)
Num(n) == [kind |-> "num", v |-> n]

NaN == [kind |-> "nan", v |-> 0]

Text == [kind |-> "text", v |-> 0]

None == [kind |-> "none", v |-> 0]

(***************************************************************************)
(* PlayerValueEstimator                                                    *)
(***************************************************************************)
VARIABLES
    age_peak_curves,   \* the estimator's configuration, self.age_peak_curves
    result,            \* the call in progress: its arguments and what it returned
    players            \* the session roster, st.session_state.players

vars == <<age_peak_curves, result, players>>

\* __init__: decline rates in hundredths (0.08 is 8).
AgePeakCurvesInit ==
    [Attacker   |-> [peak_age |-> 27, decline_rate |-> 8],
     Midfielder |-> [peak_age |-> 28, decline_rate |-> 7],
     Defender   |-> [peak_age |-> 29, decline_rate |-> 6],
     Goalkeeper |-> [peak_age |-> 31, decline_rate |-> 5]]

\* A lookup that falls back to the Attacker curve.
CurveOfAttackerFallback(curves, position) ==
    IF position \in DOMAIN curves THEN curves[position] ELSE curves["Attacker"]

\* self.age_peak_curves.get(position, self.age_peak_curves['Midfielder'])
CurveOf(curves, position) ==
    IF position \in DOMAIN curves THEN curves[position] ELSE curves["Midfielder"]

\* growth_rate = 0.15, in hundredths
GrowthRatePct == 15

calculate_age_factor(curves, current_age, position, years_ahead) ==
    LET curve == CurveOf(curves, position)
        peak_age == curve.peak_age
        decline == DSub(DOne, DLit(curve.decline_rate, 2))
        growth == DAdd(DOne, DLit(GrowthRatePct, 2))
        future_age == current_age + years_ahead
    IN  IF current_age < peak_age
        THEN IF future_age <= peak_age
             THEN DPow(growth, years_ahead)
             ELSE DMul(DPow(growth, peak_age - current_age),
                       DPow(decline, future_age - peak_age))
        ELSE DPow(decline, future_age - peak_age)

\* values = [v for v in value_history if pd.notna(v) and v > 0]
PositiveValues(value_history) ==
    LET kept == SelectSeq(value_history, LAMBDA e : e.kind = "num" /\ e.v > 0)
    IN  [i \in 1..Len(kept) |-> kept[i].v]

\* Growth rates taken from the later value back to the earlier one.
GrowthRatesReversed(values) ==
    LET idx == SelectSeq([i \in 1..(Len(values) - 1) |-> i + 1],
                         LAMBDA i : values[i - 1] > 0)
    IN  [k \in 1..Len(idx) |->
            Frac(values[idx[k] - 1] - values[idx[k]], values[idx[k] - 1])]

\* the loop over range(1, len(values)); values[i-1] > 0 holds after the filter
GrowthRates(values) ==
    LET idx == SelectSeq([i \in 1..(Len(values) - 1) |-> i + 1],
                         LAMBDA i : values[i - 1] > 0)
    IN  [k \in 1..Len(idx) |->
            Frac(values[idx[k]] - values[idx[k] - 1], values[idx[k] - 1])]

\* A weighted growth with the two weights exchanged.
WeightedGrowthSwapped(growth_rates) ==
    LET avg_growth == FMul(FSum(growth_rates), Frac(1, Len(growth_rates)))
        recent_growth == growth_rates[Len(growth_rates)]
    IN  FAdd(FMul(Frac(4, 10), recent_growth), FMul(Frac(6, 10), avg_growth))

\* weighted_growth = 0.6 * recent_growth + 0.4 * avg_growth
WeightedGrowth(growth_rates) ==
    LET avg_growth == FMul(FSum(growth_rates), Frac(1, Len(growth_rates)))
        recent_growth == growth_rates[Len(growth_rates)]
    IN  FAdd(FMul(Frac(6, 10), recent_growth), FMul(Frac(4, 10), avg_growth))

\* A ladder that compares with >= where the program compares with >.
MomentumLadderInclusive(weighted_growth) ==
    IF FGe(weighted_growth, Frac(3, 10)) THEN DLit(15, 1)
    ELSE IF FGe(weighted_growth, Frac(2, 10)) THEN DLit(135, 2)
    ELSE IF FGe(weighted_growth, Frac(1, 10)) THEN DLit(12, 1)
    ELSE IF FGe(weighted_growth, Frac(0, 1)) THEN DLit(11, 1)
    ELSE IF FGe(weighted_growth, Frac(-1, 10)) THEN DOne
    ELSE DLit(85, 2)

\* A ladder whose lowest step is 0.9.
MomentumLadderNinety(weighted_growth) ==
    IF FGt(weighted_growth, Frac(3, 10)) THEN DLit(15, 1)
    ELSE IF FGt(weighted_growth, Frac(2, 10)) THEN DLit(135, 2)
    ELSE IF FGt(weighted_growth, Frac(1, 10)) THEN DLit(12, 1)
    ELSE IF FGt(weighted_growth, Frac(0, 1)) THEN DLit(11, 1)
    ELSE IF FGt(weighted_growth, Frac(-1, 10)) THEN DOne
    ELSE DLit(9, 1)

\* the ladder of lines 107-118
MomentumLadder(weighted_growth) ==
    IF FGt(weighted_growth, Frac(3, 10)) THEN DLit(15, 1)
    ELSE IF FGt(weighted_growth, Frac(2, 10)) THEN DLit(135, 2)
    ELSE IF FGt(weighted_growth, Frac(1, 10)) THEN DLit(12, 1)
    ELSE IF FGt(weighted_growth, Frac(0, 1)) THEN DLit(11, 1)
    ELSE IF FGt(weighted_growth, Frac(-1, 10)) THEN DOne
    ELSE DLit(85, 2)

calculate_momentum_factor(value_history) ==
    LET values == PositiveValues(value_history)
        growth_rates == GrowthRates(values)
    IN  IF Len(values) < 2 THEN DOne
        ELSE IF growth_rates = <<>> THEN DOne
        ELSE MomentumLadder(WeightedGrowth(growth_rates))

\* The league cell: a text with surrounding whitespace; str(...).strip()
\* drops the whitespace and keeps the text.
League(name) == [lead |-> 0, name |-> name, trail |-> 0]

Strip(league) == league.name

top_tier_1 == {"Premier League"}

top_tier_2 == {"La Liga", "Bundesliga", "Serie A"}

top_tier_3 == {"Ligue 1", "Primeira Liga", "Eredivisie"}

\* A league premium that adds nothing for a league outside the three tiers.
LeaguePremiumNoFloor(premium, data) ==
    LET league == Strip(data.league)
    IN  IF league \in top_tier_1 THEN DAdd(premium, DLit(15, 2))
        ELSE IF league \in top_tier_2 THEN DAdd(premium, DLit(12, 2))
        ELSE IF league \in top_tier_3 THEN DAdd(premium, DLit(8, 2))
        ELSE premium

\* League premium, lines 124-138
LeaguePremium(premium, data) ==
    LET league == Strip(data.league)
    IN  IF league \in top_tier_1 THEN DAdd(premium, DLit(15, 2))
        ELSE IF league \in top_tier_2 THEN DAdd(premium, DLit(12, 2))
        ELSE IF league \in top_tier_3 THEN DAdd(premium, DLit(8, 2))
        ELSE DAdd(premium, DLit(2, 2))

\* Age premium, lines 140-147
AgePremium(premium, data) ==
    LET age == data.age
    IN  IF age < 23 THEN DAdd(premium, DLit(25, 2))
        ELSE IF age < 25 THEN DAdd(premium, DLit(15, 2))
        ELSE IF age < 27 THEN DAdd(premium, DLit(5, 2))
        ELSE premium

\* float(x) and int(x) raise ValueError or TypeError on a text that is no
\* numeral and on None
Raises(cell) == cell.kind \in {"text", "none"}

\* A performance premium whose assists, when they are missing, count as 0.
PerformancePremiumLenient(premium, data) ==
    IF Raises(data.goals) THEN premium
    ELSE LET assists == IF Raises(data.assists) THEN 0 ELSE data.assists.v
             total_contributions == data.goals.v + assists
         IN  IF total_contributions > 20 THEN DAdd(premium, DLit(20, 2))
             ELSE IF total_contributions > 10 THEN DAdd(premium, DLit(12, 2))
             ELSE IF total_contributions > 5 THEN DAdd(premium, DLit(6, 2))
             ELSE premium

\* Performance premium, lines 149-162: the except clause keeps the premium
PerformancePremium(premium, data) ==
    IF Raises(data.goals) \/ Raises(data.assists) THEN premium
    ELSE LET total_contributions == data.goals.v + data.assists.v
         IN  IF total_contributions > 20 THEN DAdd(premium, DLit(20, 2))
             ELSE IF total_contributions > 10 THEN DAdd(premium, DLit(12, 2))
             ELSE IF total_contributions > 5 THEN DAdd(premium, DLit(6, 2))
             ELSE premium

\* current_year = 2025
CurrentYear == 2025

\* Contract premium, lines 164-177
ContractPremium(premium, data) ==
    IF Raises(data.contract_expires) THEN premium
    ELSE LET years_remaining == data.contract_expires.v - CurrentYear
         IN  IF years_remaining >= 4 THEN DAdd(premium, DLit(15, 2))
             ELSE IF years_remaining >= 3 THEN DAdd(premium, DLit(10, 2))
             ELSE IF years_remaining >= 2 THEN DAdd(premium, DLit(5, 2))
             ELSE premium

\* A premium that loses 0.10 when the record shows less than half of the
\* available minutes played.
calculate_premium_factor_playing_time(data) ==
    LET premium ==
            ContractPremium(PerformancePremium(AgePremium(
                LeaguePremium(DOne, data), data), data), data)
    IN  IF /\ "minutes_played" \in DOMAIN data
           /\ data.total_available_minutes.v > 0
           /\ 2 * data.minutes_played.v < data.total_available_minutes.v
        THEN DSub(premium, DLit(10, 2))
        ELSE premium

calculate_premium_factor(data) ==
    ContractPremium(PerformancePremium(AgePremium(LeaguePremium(DOne, data),
                                                  data), data), data)

\* An uncertainty that leaves out the term of the horizon.
UncertaintyFlat(years_ahead) == DLit(15, 2)

\* uncertainty = 0.15 + (0.05 * years_ahead)
Uncertainty(years_ahead) ==
    DAdd(DLit(15, 2), DMul(DLit(5, 2), DInt(years_ahead)))

\* A low estimate that adds the uncertainty where the program subtracts it.
LowEstimateAdded(base_projection, uncertainty) ==
    DMul(base_projection, DAdd(DOne, uncertainty))

\* low_estimate = base_projection * (1 - uncertainty)
LowEstimate(base_projection, uncertainty) ==
    DMul(base_projection, DSub(DOne, uncertainty))

\* high_estimate = base_projection * (1 + uncertainty * 1.5)
HighEstimate(base_projection, uncertainty) ==
    DMul(base_projection, DAdd(DOne, DMul(uncertainty, DLit(15, 1))))

estimate_future_value(curves, current_value, age, position, value_history, years_ahead) ==
    LET age_factor == calculate_age_factor(curves, age, position, years_ahead)
        momentum_factor == calculate_momentum_factor(value_history)
        base_projection == DMul(DMul(current_value, age_factor), momentum_factor)
        uncertainty == Uncertainty(years_ahead)
    IN  [projected_value |-> base_projection,
         low_estimate    |-> LowEstimate(base_projection, uncertainty),
         high_estimate   |-> HighEstimate(base_projection, uncertainty),
         age_factor      |-> age_factor,
         momentum_factor |-> momentum_factor]

\* asking_price_now = current_value * premium * 1.2
AskingPriceNow(current_value, premium) ==
    DMul(DMul(current_value, premium), DLit(12, 1))

\* An asking price ahead that carries the markup of the immediate sale.
AskingPriceAheadMarkedUp(projection, premium) ==
    DMul(DMul(projection.projected_value, premium), DLit(12, 1))

\* asking_price_1y, asking_price_2y = projected_value * premium
AskingPriceAhead(projection, premium) ==
    DMul(projection.projected_value, premium)

\* A minimum price with the ratio 1.15 in place of 0.85.
MinimumPriceAbove(asking_price) == DMul(asking_price, DLit(115, 2))

\* minimum_now, minimum_2y = asking price * 0.85
MinimumPrice(asking_price) == DMul(asking_price, DLit(85, 2))

analyze_player(curves, data) ==
    LET age == data.age
        position == data.position
        current_value == DInt(data.current_value.v)
        value_history == data.value_history
        projection_1y == estimate_future_value(curves, current_value, age,
                                               position, value_history, 1)
        projection_2y == estimate_future_value(curves, current_value, age,
                                               position, value_history, 2)
        premium == calculate_premium_factor(data)
        asking_price_now == AskingPriceNow(current_value, premium)
        asking_price_2y == AskingPriceAhead(projection_2y, premium)
    IN  [name             |-> data.name,
         age              |-> age,
         position         |-> position,
         current_value    |-> current_value,
         projection_1y    |-> projection_1y,
         projection_2y    |-> projection_2y,
         premium_factor   |-> premium,
         asking_price_now |-> asking_price_now,
         asking_price_1y  |-> AskingPriceAhead(projection_1y, premium),
         asking_price_2y  |-> asking_price_2y,
         minimum_now      |-> MinimumPrice(asking_price_now),
         minimum_2y       |-> MinimumPrice(asking_price_2y),
         value_history    |-> value_history,
         player_data      |-> data]

\* A recommendation whose peak window has its two bounds exchanged.
get_recommendation_swapped_window(analysis) ==
    LET momentum == analysis.projection_2y.momentum_factor
        age_factor == analysis.projection_2y.age_factor
        age == analysis.age
    IN  IF DGt(momentum, DLit(13, 1)) /\ age < 24
        THEN <<"HOLD", "High potential, value rising rapidly", "hold">>
        ELSE IF DGt(momentum, DLit(115, 2)) /\ DGt(age_factor, DLit(11, 1))
        THEN <<"HOLD", "Good momentum and age trajectory", "hold">>
        ELSE IF age > 30 /\ DLt(momentum, DOne)
        THEN <<"SELL NOW", "Declining value window", "sell">>
        ELSE IF DLt(momentum, DLit(9, 1))
        THEN <<"SELL NOW", "Negative momentum", "sell">>
        ELSE IF age >= 29 /\ age <= 27 /\ DGt(momentum, DOne)
        THEN <<"CONSIDER OFFERS", "At peak value", "consider">>
        ELSE <<"EVALUATE", "Monitor performance", "consider">>

get_recommendation(analysis) ==
    LET momentum == analysis.projection_2y.momentum_factor
        age_factor == analysis.projection_2y.age_factor
        age == analysis.age
    IN  IF DGt(momentum, DLit(13, 1)) /\ age < 24
        THEN <<"HOLD", "High potential, value rising rapidly", "hold">>
        ELSE IF DGt(momentum, DLit(115, 2)) /\ DGt(age_factor, DLit(11, 1))
        THEN <<"HOLD", "Good momentum and age trajectory", "hold">>
        ELSE IF age > 30 /\ DLt(momentum, DOne)
        THEN <<"SELL NOW", "Declining value window", "sell">>
        ELSE IF DLt(momentum, DLit(9, 1))
        THEN <<"SELL NOW", "Negative momentum", "sell">>
        ELSE IF age >= 27 /\ age <= 29 /\ DGt(momentum, DOne)
        THEN <<"CONSIDER OFFERS", "At peak value", "consider">>
        ELSE <<"EVALUATE", "Monitor performance", "consider">>

(***************************************************************************)
(* The inputs the calls are made on.  The history values are ones on       *)
(* which the floating-point evaluation of the weighted growth falls on     *)
(* the same side of every threshold as its exact value.                    *)
(***************************************************************************)
MinAge == 16

MaxAge == 34

MaxYearsAhead == 2

MaxHistLen == 3

Ages == MinAge..MaxAge

\* "Winger" stands for any position age_peak_curves does not map
Positions == {"Attacker", "Midfielder", "Defender", "Goalkeeper", "Winger"}

YearsAhead == 0..MaxYearsAhead

HistCells == {NaN, Num(0), Num(-3), Num(16), Num(20), Num(25)}

Histories == UNION {[1..n -> HistCells] : n \in 0..MaxHistLen}

NumSeq(s) == [i \in 1..Len(s) |-> Num(s[i])]

\* one history of each outcome of calculate_momentum_factor
TrendHistories ==
    {NumSeq(<<25>>), NumSeq(<<15, 25>>), NumSeq(<<16, 20, 25>>),
     NumSeq(<<22, 25>>), NumSeq(<<24, 25>>), NumSeq(<<30, 28, 25>>),
     NumSeq(<<30, 25>>)}

CurrentValueCells == {Num(-5), Num(0), Num(25), Text}

Leagues ==
    {League("Premier League"), League("La Liga"), League("Ligue 1"),
     League("Other"), [lead |-> 1, name |-> "Premier League", trail |-> 1]}

GoalCells == {Num(0), Num(6), Num(12), Text}

AssistCells == {Num(0), Num(12), None}

ContractCells ==
    {Num(y) : y \in (CurrentYear + 1)..(CurrentYear + 4)} \cup {Text}

Record(age, position, current_value, value_history, league, contract, goals, assists) ==
    [name |-> "Player", age |-> age, position |-> position,
     current_value |-> current_value, value_history |-> value_history,
     league |-> league, contract_expires |-> contract, goals |-> goals,
     assists |-> assists]

\* records that vary the age, the position, the value and its history
CurveRecords ==
    {Record(a, p, c, h, League("Premier League"), Num(CurrentYear + 4),
            Num(12), Num(6)) :
        a \in Ages, p \in Positions, c \in CurrentValueCells,
        h \in TrendHistories}
    \cup
    {Record(a, p, Num(25), h, League("Other"), Num(CurrentYear + 1),
            Num(0), Num(0)) :
        a \in Ages, p \in Positions, h \in TrendHistories}

\* records that vary what the premium reads
PremiumRecords ==
    {Record(a, p, Num(25), NumSeq(<<20, 25>>), l, c, g, s) :
        a \in {22, 24, 26, 28}, p \in {"Defender", "Attacker"}, l \in Leagues,
        c \in ContractCells, g \in GoalCells, s \in AssistCells}

\* records that carry playing-time fields beside the fields the estimator
\* reads: no minutes of none available, few minutes, most minutes
PlayingTimes == {<<0, 0>>, <<300, 3000>>, <<2700, 3000>>}

PlayingTimeRecords ==
    {Record(a, p, Num(25), h, League("Other"), Num(CurrentYear + 1),
            Num(0), Num(0))
        @@ [minutes_played |-> Num(m[1]), total_available_minutes |-> Num(m[2])] :
        a \in {21, 28, 32}, p \in {"Attacker", "Goalkeeper"},
        h \in TrendHistories, m \in PlayingTimes}

Idle == [op |-> "none"]

Init ==
    /\ age_peak_curves = AgePeakCurvesInit
    /\ result = Idle
    /\ players = <<>>

\* A call that stores the curve it looked up under the position asked for
\* (setdefault in place of get).
CalculateAgeFactorCaching ==
    /\ result = Idle
    /\ \E a \in Ages, p \in Positions, y \in YearsAhead :
          /\ result' = [op |-> "calculate_age_factor",
                        current_age |-> a, position |-> p, years_ahead |-> y,
                        value |-> calculate_age_factor(age_peak_curves, a, p, y)]
          /\ age_peak_curves' =
                [q \in DOMAIN age_peak_curves \cup {p} |->
                    CurveOf(age_peak_curves, q)]
    /\ UNCHANGED players

\* a call of calculate_age_factor(current_age, position, years_ahead)
CalculateAgeFactor ==
    /\ result = Idle
    /\ \E a \in Ages, p \in Positions, y \in YearsAhead :
          result' = [op |-> "calculate_age_factor",
                     current_age |-> a, position |-> p, years_ahead |-> y,
                     value |-> calculate_age_factor(age_peak_curves, a, p, y)]
    /\ UNCHANGED <<age_peak_curves, players>>

\* a call of calculate_momentum_factor(value_history)
CalculateMomentumFactor ==
    /\ result = Idle
    /\ \E h \in Histories \cup TrendHistories :
          result' = [op |-> "calculate_momentum_factor", value_history |-> h,
                     value |-> calculate_momentum_factor(h)]
    /\ UNCHANGED <<age_peak_curves, players>>

\* a call of calculate_premium_factor(player_data)
CalculatePremiumFactor ==
    /\ result = Idle
    /\ \E d \in PremiumRecords :
          result' = [op |-> "calculate_premium_factor", player_data |-> d,
                     value |-> calculate_premium_factor(d)]
    /\ UNCHANGED <<age_peak_curves, players>>

\* a call of estimate_future_value on a numeric current value
EstimateFutureValue ==
    /\ result = Idle
    /\ \E a \in Ages, p \in Positions, h \in TrendHistories, y \in YearsAhead,
          c \in {x \in CurrentValueCells : x.kind = "num"} :
          result' = [op |-> "estimate_future_value", current_value |-> DInt(c.v),
                     age |-> a, position |-> p, value_history |-> h,
                     years_ahead |-> y,
                     value |-> estimate_future_value(age_peak_curves, DInt(c.v),
                                                     a, p, h, y)]
    /\ UNCHANGED <<age_peak_curves, players>>

\* float(player_data['current_value']) raises on a cell that is no number
AnalyzePlayerRaises(data) == Raises(data.current_value)

\* a call of analyze_player(player_data): it returns an analysis or raises
AnalyzePlayer ==
    /\ result = Idle
    /\ \E d \in CurveRecords \cup PremiumRecords \cup PlayingTimeRecords :
          result' = IF AnalyzePlayerRaises(d)
                    THEN [op |-> "analyze_player", player_data |-> d,
                          raised |-> TRUE]
                    ELSE [op |-> "analyze_player", player_data |-> d,
                          raised |-> FALSE,
                          value |-> analyze_player(age_peak_curves, d)]
    /\ UNCHANGED <<age_peak_curves, players>>

\* get_recommendation(analysis) on the analysis analyze_player returned
GetRecommendation ==
    /\ result.op = "analyze_player"
    /\ ~result.raised
    /\ result' = [op |-> "get_recommendation", analysis |-> result.value,
                  value |-> get_recommendation(result.value)]
    /\ UNCHANGED <<age_peak_curves, players>>

\* the caller is done with the value returned; the next call starts afresh
Return ==
    /\ result # Idle
    /\ result' = Idle
    /\ UNCHANGED <<age_peak_curves, players>>

Next ==
    \/ CalculateAgeFactor
    \/ CalculateMomentumFactor
    \/ CalculatePremiumFactor
    \/ EstimateFutureValue
    \/ AnalyzePlayer
    \/ GetRecommendation
    \/ Return

Spec == Init /\ [][Next]_vars

(***************************************************************************)
(* The session roster and the pages that work on it                        *)
(***************************************************************************)
\* the roster has no limit of its own; the model stops adding at MaxRoster
MaxRoster == 3

\* the text input of the name: empty, or one of two names
PlayerNames == {"", "Ann", "Bo"}

\* the three number inputs of the past values: 0 stands for "not available"
PastValueInputs ==
    {<<0, 0, 0>>, <<0, 20, 0>>, <<16, 0, 22>>, <<16, 20, 22>>}

\* the number input of the current value, which is at least 0.1
CurrentValueInputs == {25}

\* A history with the newest value first.
BuildValueHistoryNewestFirst(value_3y, value_2y, value_1y, current_value) ==
    <<current_value>>
        \o (IF value_1y > 0 THEN <<value_1y>> ELSE <<>>)
        \o (IF value_2y > 0 THEN <<value_2y>> ELSE <<>>)
        \o (IF value_3y > 0 THEN <<value_3y>> ELSE <<>>)

\* "Build value history", lines 411-419
BuildValueHistory(value_3y, value_2y, value_1y, current_value) ==
    (IF value_3y > 0 THEN <<value_3y>> ELSE <<>>)
        \o (IF value_2y > 0 THEN <<value_2y>> ELSE <<>>)
        \o (IF value_1y > 0 THEN <<value_1y>> ELSE <<>>)
        \o <<current_value>>

\* the dict of lines 421-432; the widgets' other values stay at one choice
PlayerData(player_name, current_value, value_history) ==
    [Record(22, "Attacker", Num(current_value), NumSeq(value_history),
            League("Premier League"), Num(CurrentYear + 2), Num(0), Num(0))
        EXCEPT !.name = player_name] @@ [status |-> "Unknown"]

\* list.pop() with no index: it removes the last element.
PopLast(list, idx) == SubSeq(list, 1, Len(list) - 1)

\* list.pop(idx), idx counted from 0
Pop(list, idx) ==
    [i \in 1..(Len(list) - 1) |-> IF i <= idx THEN list[i] ELSE list[i + 1]]

\* the button "Add Player", lines 408-437
AddPlayer ==
    /\ result = Idle
    /\ \E player_name \in PlayerNames, past \in PastValueInputs,
          current_value \in CurrentValueInputs :
          LET value_history ==
                  BuildValueHistory(past[1], past[2], past[3], current_value)
              entered == [op |-> "add_player", player_name |-> player_name,
                          value_3y |-> past[1], value_2y |-> past[2],
                          value_1y |-> past[3], current_value |-> current_value]
          IN  IF player_name # ""
              THEN /\ Len(players) < MaxRoster
                   /\ players' = Append(players,
                                        PlayerData(player_name, current_value,
                                                   value_history))
                   /\ result' = entered @@ [message |-> "success"]
              ELSE /\ players' = players
                   /\ result' = entered @@ [message |-> "error"]
    /\ UNCHANGED age_peak_curves

\* the button "Clear All Players", lines 439-442
ClearAllPlayers ==
    /\ result = Idle
    /\ players' = <<>>
    /\ result' = [op |-> "clear_all", message |-> "success"]
    /\ UNCHANGED age_peak_curves

\* the delete button of the row idx of the squad list, lines 449-458
DeletePlayer ==
    /\ result = Idle
    /\ \E idx \in 0..(Len(players) - 1) :
          /\ players' = Pop(players, idx)
          /\ result' = [op |-> "delete", idx |-> idx]
    /\ UNCHANGED age_peak_curves

\* next((p for p in players if p['name'] == selected_player_name), None)
SelectedPlayer(list, selected_player_name) ==
    list[CHOOSE i \in 1..Len(list) :
            /\ list[i].name = selected_player_name
            /\ \A j \in 1..(i - 1) : list[j].name # selected_player_name]

\* the page "Player Analysis", lines 462-478
PlayerAnalysisPage ==
    /\ result = Idle
    /\ IF players = <<>>
       THEN result' = [op |-> "player_analysis", warning |-> TRUE]
       ELSE \E selected_player_name \in {players[i].name : i \in 1..Len(players)} :
              \E analysis \in
                    {analyze_player(age_peak_curves,
                                    SelectedPlayer(players, selected_player_name))} :
                 result' = [op |-> "player_analysis", warning |-> FALSE,
                            selected_player_name |-> selected_player_name,
                            analysis |-> analysis,
                            recommendation |-> get_recommendation(analysis)]
    /\ UNCHANGED <<age_peak_curves, players>>

\* the page "Squad Overview", lines 645-652
SquadOverviewPage ==
    /\ result = Idle
    /\ IF players = <<>>
       THEN result' = [op |-> "squad_overview", warning |-> TRUE]
       ELSE result' = [op |-> "squad_overview", warning |-> FALSE,
                       analyses |-> [i \in 1..Len(players) |->
                                       analyze_player(age_peak_curves, players[i])]]
    /\ UNCHANGED <<age_peak_curves, players>>

RosterNext ==
    \/ AddPlayer
    \/ ClearAllPlayers
    \/ DeletePlayer
    \/ PlayerAnalysisPage
    \/ SquadOverviewPage
    \/ Return

RosterSpec == Init /\ [][RosterNext]_vars

(***************************************************************************)
(* Properties                                                              *)
(***************************************************************************)
Returned(op) == result.op = op /\ (op = "analyze_player" => ~result.raised)

\* A valid record: a positive current value (the ages drawn are all >= 16).
ValidRecord(data) ==
    /\ data.current_value.kind = "num"
    /\ data.current_value.v > 0
    /\ data.age >= MinAge

\* C1: calculate_age_factor(age, position, years_ahead = 0) returns exactly
\* 1.0 for every position and every age >= 16, ages above the peak included.
C1_AgeFactorIsOneAtHorizonZero ==
    (Returned("calculate_age_factor") /\ result.years_ahead = 0)
        => result.value = DOne

\* The record of the scenario of C2: an Attacker aged 32 whose value went
\* 30, 28, 25 and whose contract expires the year after the reference year.
IsSellScenario(data) ==
    /\ data.position = "Attacker"
    /\ data.age = 32
    /\ data.value_history = NumSeq(<<30, 28, 25>>)
    /\ data.contract_expires = Num(CurrentYear + 1)

\* The rationale texts of get_recommendation that name the age, and those
\* that name the contract (no text of lines 247-258 does).
ReasonsNamingAge == {"Good momentum and age trajectory"}

ReasonsNamingContract == {}

\* C2: for that record analyze_player followed by get_recommendation yields
\* SELL, with a rationale that names both the age and the short contract.
C2_SellScenarioYieldsSell ==
    (Returned("get_recommendation") /\ IsSellScenario(result.analysis.player_data))
        => /\ result.value[1] = "SELL NOW"
           /\ result.value[2] \in ReasonsNamingAge
           /\ result.value[2] \in ReasonsNamingContract

\* C3: on the analysis of a valid record the action get_recommendation
\* returns is always one of the three actions HOLD, SELL, CONSIDER OFFERS;
\* there is no fourth.
C3_ActionIsOneOfThree ==
    (Returned("get_recommendation") /\ ValidRecord(result.analysis.player_data))
        => result.value[1] \in {"HOLD", "SELL NOW", "CONSIDER OFFERS"}

\* C4: for a Defender calculate_premium_factor returns the same value for
\* every choice of goals and assists, the other fields held fixed: the value
\* it returns is the one it returns for no goals and no assists.
C4_DefenderPremiumIgnoresGoals ==
    (Returned("calculate_premium_factor")
     /\ result.player_data.position = "Defender")
        => result.value =
             calculate_premium_factor([result.player_data EXCEPT
                                          !.goals = Num(0), !.assists = Num(0)])

\* C5: analyze_player rejects every record whose current_value is <= 0: it
\* never returns an analysis for such a record.
C5_NonPositiveValueIsRejected ==
    (result.op = "analyze_player"
     /\ result.player_data.current_value.kind = "num"
     /\ result.player_data.current_value.v <= 0)
        => result.raised

\* C6: for every valid record (current_value > 0) and every horizon >= 0,
\* estimate_future_value returns low_estimate <= projected_value <=
\* high_estimate.
C6_BandOrdered ==
    (Returned("estimate_future_value") /\ DGt(result.current_value, DZero))
        => /\ DLe(result.value.low_estimate, result.value.projected_value)
           /\ DLe(result.value.projected_value, result.value.high_estimate)

\* C6 happens: a projection of a positive value at the longest horizon, the
\* projected value strictly inside the band.
C6_Witness ==
    /\ Returned("estimate_future_value")
    /\ DGt(result.current_value, DZero)
    /\ result.years_ahead = MaxYearsAhead
    /\ DLt(result.value.low_estimate, result.value.projected_value)
    /\ DLt(result.value.projected_value, result.value.high_estimate)

BandWidth(projection) == DSub(projection.high_estimate, projection.low_estimate)

\* C7: for every valid record the band of the 2-year projection is at least
\* as wide as the band of the 1-year projection, also when the projected
\* value falls between year 1 and year 2.
C7_BandWidens ==
    (Returned("analyze_player") /\ ValidRecord(result.player_data))
        => DGe(BandWidth(result.value.projection_2y),
               BandWidth(result.value.projection_1y))

\* C7 happens: the analysis of a valid record whose projected value is lower
\* at year 2 than at year 1.
C7_Witness ==
    /\ Returned("analyze_player")
    /\ ValidRecord(result.player_data)
    /\ DLt(result.value.projection_2y.projected_value,
           result.value.projection_1y.projected_value)
    /\ DGt(BandWidth(result.value.projection_2y),
           BandWidth(result.value.projection_1y))

\* C8: in every analysis of a valid record each minimum price is strictly
\* below its asking price, now and at 2 years.
C8_MinimumBelowAsking ==
    (Returned("analyze_player") /\ ValidRecord(result.player_data))
        => /\ DLt(result.value.minimum_now, result.value.asking_price_now)
           /\ DLt(result.value.minimum_2y, result.value.asking_price_2y)

\* C8 happens: the analysis of a valid record with positive asking prices.
C8_Witness ==
    /\ Returned("analyze_player")
    /\ ValidRecord(result.player_data)
    /\ DGt(result.value.asking_price_2y, DZero)
    /\ DGt(result.value.minimum_2y, DZero)
    /\ DLt(result.value.minimum_now, result.value.asking_price_now)

PositiveEntryValues(h) ==
    {h[i].v : i \in {j \in 1..Len(h) : h[j].kind = "num" /\ h[j].v > 0}}

PositiveEntryCount(h) ==
    Cardinality({j \in 1..Len(h) : h[j].kind = "num" /\ h[j].v > 0})

\* C10: calculate_momentum_factor returns exactly 1.0 for an empty history,
\* for a single element, for fewer than 2 positive entries once the
\* non-positive and missing ones are filtered out, and for a history whose
\* positive entries are all equal.
C10_NeutralMomentum ==
    (Returned("calculate_momentum_factor")
     /\ \/ Len(result.value_history) < 2
        \/ PositiveEntryCount(result.value_history) < 2
        \/ Cardinality(PositiveEntryValues(result.value_history)) = 1)
        => result.value = DOne

\* C10 happens: a history of several equal positive entries around entries
\* that are filtered out.
C10_Witness ==
    /\ Returned("calculate_momentum_factor")
    /\ PositiveEntryCount(result.value_history) >= 2
    /\ PositiveEntryCount(result.value_history) < Len(result.value_history)
    /\ Cardinality(PositiveEntryValues(result.value_history)) = 1
    /\ result.value = DOne

\* The record of the scenario of C11: an Attacker aged 21 valued 25.0 whose
\* value went 16, 20, 25, in the Premier League, under contract until 2029,
\* with 12 goals and 6 assists.
IsHoldScenario(data) ==
    /\ data.position = "Attacker"
    /\ data.age = 21
    /\ data.current_value = Num(25)
    /\ data.value_history = NumSeq(<<16, 20, 25>>)
    /\ Strip(data.league) = "Premier League"
    /\ data.contract_expires = Num(2029)
    /\ data.goals = Num(12)
    /\ data.assists = Num(6)

\* C11: for that record the 2-year age factor is above 1.0, the momentum
\* factor is above 1.0, the premium factor is above 1.3 and
\* get_recommendation returns the action HOLD.
C11_HoldScenarioYieldsHold ==
    (Returned("get_recommendation") /\ IsHoldScenario(result.analysis.player_data))
        => /\ DGt(result.analysis.projection_2y.age_factor, DOne)
           /\ DGt(result.analysis.projection_2y.momentum_factor, DOne)
           /\ DGt(result.analysis.premium_factor, DLit(13, 1))
           /\ result.value[1] = "HOLD"

\* C11 happens: the recommendation on the analysis of that record, with the
\* factors the program computes for it.
C11_Witness ==
    /\ Returned("get_recommendation")
    /\ IsHoldScenario(result.analysis.player_data)
    /\ result.analysis.projection_2y.age_factor = DLit(13225, 4)
    /\ result.analysis.projection_2y.momentum_factor = DLit(135, 2)
    /\ result.analysis.premium_factor = DLit(167, 2)
    /\ result.value = <<"HOLD", "High potential, value rising rapidly", "hold">>

\* A record whose goals or assists, or whose contract year, is no number.
PerformanceMalformed(data) == Raises(data.goals) \/ Raises(data.assists)

ContractMalformed(data) == Raises(data.contract_expires)

\* The same record with well-formed goals and assists, or a well-formed
\* contract year, in every way the inputs allow.
WithPerformance(data) ==
    {[data EXCEPT !.goals = g, !.assists = s] :
        g \in {c \in GoalCells : ~Raises(c)},
        s \in {c \in AssistCells : ~Raises(c)}}

WithContract(data) ==
    {[data EXCEPT !.contract_expires = c] :
        c \in {x \in ContractCells : ~Raises(x)}}

C13_CallsLeaveStateAlone ==
    [][/\ age_peak_curves' = age_peak_curves
       /\ (result'.op = "analyze_player" /\ ~result'.raised) =>
             /\ result'.value =
                   analyze_player(AgePeakCurvesInit, result'.player_data)
             /\ result'.value.player_data = result'.player_data
             /\ result'.value.value_history = result'.player_data.value_history
       /\ result'.op = "get_recommendation" =>
             /\ result'.analysis = result.value
             /\ result'.analysis.player_data = result.player_data
             /\ result'.value = get_recommendation(result.value)]_vars

\* C13 happens: a recommendation returned on an analysis that carries the
\* record as it was passed in, the curves being those of the constructor.
C13_Witness ==
    /\ Returned("get_recommendation")
    /\ age_peak_curves = AgePeakCurvesInit
    /\ result.analysis.player_data \in CurveRecords
    /\ result.analysis.value_history = NumSeq(<<30, 28, 25>>)
    /\ result.analysis.player_data.value_history = NumSeq(<<30, 28, 25>>)

\* The reference curve of C14: the peak age and the yearly decline (in
\* hundredths) of each position, an unlisted position taking those of the
\* Midfielder, and the three branches on the age, the horizon and the peak.
ReferencePeak(position) ==
    CASE position = "Attacker" -> 27
      [] position = "Defender" -> 29
      [] position = "Goalkeeper" -> 31
      [] OTHER -> 28

ReferenceDecline(position) ==
    CASE position = "Attacker" -> 8
      [] position = "Defender" -> 6
      [] position = "Goalkeeper" -> 5
      [] OTHER -> 7

ReferenceCurve(age, position, horizon) ==
    LET peak == ReferencePeak(position)
        keep == DLit(100 - ReferenceDecline(position), 2)
    IN  IF age + horizon <= peak /\ age < peak
            THEN DPow(DLit(115, 2), horizon)
        ELSE IF age < peak
            THEN DMul(DPow(DLit(115, 2), peak - age),
                      DPow(keep, age + horizon - peak))
        ELSE DPow(keep, age + horizon - peak)

\* C14: calculate_age_factor equals the reference curve for every age >= 16,
\* every horizon drawn and every position: 1.15^horizon when age + horizon
\* <= peak, 1.15^(peak - age) * (1 - decline)^(age + horizon - peak) when
\* age < peak < age + horizon, (1 - decline)^(age + horizon - peak) when
\* age >= peak; a position that is not listed uses peak 28, decline 0.07.
C14_AgeFactorIsReferenceCurve ==
    Returned("calculate_age_factor")
        => result.value = ReferenceCurve(result.current_age, result.position,
                                         result.years_ahead)

\* C14 happens: an unlisted position whose horizon crosses the Midfielder
\* peak, one year of growth and one of decline.
C14_Witness ==
    /\ Returned("calculate_age_factor")
    /\ result.position \notin DOMAIN age_peak_curves
    /\ result.current_age = 27
    /\ result.years_ahead = 2
    /\ result.value = DMul(DLit(115, 2), DLit(93, 2))

\* The weighted growth of C15 over the positive entries p[1..n], n >= 2, as
\* a ratio of integers: with D the product of p[1..n-1] and N[i] the rate
\* (p[i+1] - p[i]) / p[i] brought to the denominator D,
\*   w = (6 * (n-1) * N[n-1] + 4 * (N[1] + ... + N[n-1])) / (10 * (n-1) * D).
ScaledGrowth(p) ==
    LET n == Len(p)
        prod[i \in 0..(n - 1)] == IF i = 0 THEN 1 ELSE prod[i - 1] * p[i]
        D == prod[n - 1]
        N(i) == (p[i + 1] - p[i]) * (D \div p[i])
        sum[i \in 0..(n - 1)] == IF i = 0 THEN 0 ELSE sum[i - 1] + N(i)
    IN  [num |-> 6 * (n - 1) * N(n - 1) + 4 * sum[n - 1],
         tenth |-> (n - 1) * D]

\* The bands of the ladder: w = g.num / (10 * g.tenth) lies in the band of
\* the multiplier m.
InBand(m, g) ==
    CASE m = DLit(15, 1)  -> g.num > 3 * g.tenth
      [] m = DLit(135, 2) -> g.num > 2 * g.tenth /\ g.num <= 3 * g.tenth
      [] m = DLit(12, 1)  -> g.num > g.tenth /\ g.num <= 2 * g.tenth
      [] m = DLit(11, 1)  -> g.num > 0 /\ g.num <= g.tenth
      [] m = DOne         -> g.num > 0 - g.tenth /\ g.num <= 0
      [] m = DLit(85, 2)  -> g.num <= 0 - g.tenth
      [] OTHER            -> FALSE

Multipliers ==
    {DLit(15, 1), DLit(135, 2), DLit(12, 1), DLit(11, 1), DOne, DLit(85, 2)}

HasPlayingTime(data) ==
    {"minutes_played", "total_available_minutes"} \subseteq DOMAIN data

WithoutPlayingTime(data) ==
    [k \in DOMAIN data \ {"minutes_played", "total_available_minutes"} |->
        data[k]]

\* The rationale texts of get_recommendation, lines 247-258; none of them
\* speaks of playing time.
RationaleTexts ==
    {"High potential, value rising rapidly", "Good momentum and age trajectory",
     "Declining value window", "Negative momentum", "At peak value",
     "Monitor performance"}

\* C16: projection and recommendation do not depend on playing-time data.
\* Whatever minutes_played and total_available_minutes a record carries,
\* 0 of 0 included, the projected values, the estimates, the asking and
\* minimum prices and the recommendation are those of the record without
\* the two fields, and the rationale has no playing-time clause.
C16_PlayingTimeIsIgnored ==
    (Returned("get_recommendation")
     /\ HasPlayingTime(result.analysis.player_data))
        => LET a == result.analysis
               b == analyze_player(age_peak_curves,
                                   WithoutPlayingTime(a.player_data))
           IN  /\ a.projection_1y = b.projection_1y
               /\ a.projection_2y = b.projection_2y
               /\ a.premium_factor = b.premium_factor
               /\ a.asking_price_now = b.asking_price_now
               /\ a.asking_price_1y = b.asking_price_1y
               /\ a.asking_price_2y = b.asking_price_2y
               /\ a.minimum_now = b.minimum_now
               /\ a.minimum_2y = b.minimum_2y
               /\ result.value = get_recommendation(b)
               /\ result.value[2] \in RationaleTexts

\* C16 happens: a recommendation on a record that shows a tenth of the
\* available minutes played.
C16_Witness ==
    /\ Returned("get_recommendation")
    /\ HasPlayingTime(result.analysis.player_data)
    /\ result.analysis.player_data.minutes_played = Num(300)
    /\ result.analysis.player_data.total_available_minutes = Num(3000)
    /\ result.analysis.age = 28
    /\ result.value[1] = "CONSIDER OFFERS"

\* C17: a contract with exactly 1 year remaining (contract_expires = 2026
\* against the reference year 2025) changes the premium factor by -0.20
\* relative to the premium with no contract contribution, as the in-app
\* Methodology states ("1 year: -20%").
C17_OneYearContractPenalty ==
    (Returned("calculate_premium_factor")
     /\ result.player_data.contract_expires = Num(CurrentYear + 1))
        => result.value =
             DSub(calculate_premium_factor(
                      [result.player_data EXCEPT !.contract_expires = Text]),
                  DLit(20, 2))

\* A record at the peak: a valid record of an Attacker aged 28 whose value
\* rose from 22 to 25.
IsPeakScenario(data) ==
    /\ ValidRecord(data)
    /\ data.position = "Attacker"
    /\ data.age = 28
    /\ data.value_history = NumSeq(<<22, 25>>)

\* C18: CONSIDER OFFERS is reachable: there is a valid record, the one at
\* the peak, for which analyze_player followed by get_recommendation returns
\* the action CONSIDER OFFERS as a normal result.
C18_PeakRecordYieldsConsiderOffers ==
    (Returned("get_recommendation") /\ IsPeakScenario(result.analysis.player_data))
        => result.value = <<"CONSIDER OFFERS", "At peak value", "consider">>

\* C18 happens: the recommendation CONSIDER OFFERS returned on the analysis
\* of that record.
C18_Witness ==
    /\ Returned("get_recommendation")
    /\ IsPeakScenario(result.analysis.player_data)
    /\ result.analysis.projection_2y.momentum_factor = DLit(12, 1)
    /\ result.value[1] = "CONSIDER OFFERS"

\* The conditions of the two HOLD branches and of the two SELL branches of
\* get_recommendation, on the factors and the age of an analysis.
HoldCondition(analysis) ==
    \/ /\ DGt(analysis.projection_2y.momentum_factor, DLit(13, 1))
       /\ analysis.age < 24
    \/ /\ DGt(analysis.projection_2y.momentum_factor, DLit(115, 2))
       /\ DGt(analysis.projection_2y.age_factor, DLit(11, 1))

SellCondition(analysis) ==
    \/ /\ analysis.age > 30
       /\ DLt(analysis.projection_2y.momentum_factor, DOne)
    \/ DLt(analysis.projection_2y.momentum_factor, DLit(9, 1))

C20_HighestPremium ==
    /\ Returned("calculate_premium_factor")
    /\ result.value = DLit(175, 2)

\* The past values entered that are above 0, oldest first.
EnteredPastValues(entered) ==
    SelectSeq(<<entered.value_3y, entered.value_2y, entered.value_1y>>,
              LAMBDA v : v > 0)

\* C21: after any sequence of roster operations (Add Player, delete at an
\* index, Clear All Players) every record of the roster has a non-empty
\* name and a value_history of length 1 to 4 whose entries are all positive
\* and whose last element is the record's current_value; the history of the
\* record just added is the entered 3y, 2y, 1y values above 0 in that
\* order, followed by the current value.
C21_RosterRecordsWellFormed ==
    /\ \A i \in 1..Len(players) :
          LET h == players[i].value_history
          IN  /\ players[i].name # ""
              /\ Len(h) >= 1
              /\ Len(h) <= 4
              /\ \A j \in 1..Len(h) : h[j].kind = "num" /\ h[j].v > 0
              /\ h[Len(h)] = players[i].current_value
    /\ (result.op = "add_player" /\ result.message = "success")
          => LET h == players[Len(players)].value_history
             IN  /\ SubSeq(h, 1, Len(h) - 1) = NumSeq(EnteredPastValues(result))
                 /\ h[Len(h)] = Num(result.current_value)

\* C21 happens: after a delete the roster still holds a record whose
\* history has all four entries, the three past values before the current.
C21_Witness ==
    /\ result.op = "delete"
    /\ Len(players) >= 1
    /\ players[1].value_history = NumSeq(<<16, 20, 22, 25>>)
    /\ players[1].current_value = Num(25)

\* C22: roster operations change only what they name.  Add Player with an
\* empty name leaves the roster unchanged; a successful add appends exactly
\* one record at the end; deleting at index idx removes exactly that record
\* and keeps the relative order of all others; Clear All leaves the roster
\* empty; analysing players (Player Analysis, Squad Overview) never changes
\* the roster.
C22_RosterOperationsFrame ==
    [][LET n == Len(players)
       IN  /\ result'.op = "add_player" =>
                 IF result'.player_name = ""
                 THEN players' = players /\ result'.message = "error"
                 ELSE /\ result'.message = "success"
                      /\ Len(players') = n + 1
                      /\ \A i \in 1..n : players'[i] = players[i]
                      /\ players'[n + 1].name = result'.player_name
           /\ result'.op = "delete" =>
                 /\ Len(players') = n - 1
                 /\ \A i \in 1..result'.idx : players'[i] = players[i]
                 /\ \A i \in (result'.idx + 2)..n : players'[i - 1] = players[i]
           /\ result'.op = "clear_all" => players' = <<>>
           /\ result'.op \in {"player_analysis", "squad_overview", "none"}
                 => players' = players]_vars

\* C22 happens: the middle record of three has been deleted, the first and
\* the last being different records that stay in their order.
C22_Witness ==
    /\ result.op = "delete"
    /\ result.idx = 1
    /\ Len(players) = 2
    /\ players[1].name = "Ann"
    /\ players[2].name = "Bo"
    /\ players[1].value_history = NumSeq(<<16, 20, 22, 25>>)
    /\ players[2].value_history = NumSeq(<<25>>)

====
